---- MODULE Spec2Model ----
(***************************************************************************)
(* Seat booking service with time-bounded locks (src/node4.3.js).          *)
(*                                                                         *)
(* The state is the in-memory seats store, the runtime's list of scheduled *)
(* timeouts, and the clock read by Date.now().  Every request handler runs *)
(* to completion on the single JavaScript thread, so each handler is one   *)
(* action; the clock does not advance inside a handler.                    *)
(*                                                                         *)
(* JavaScript null is written with one sentinel per field type:            *)
(* NullOwner for lockOwner, NullTime for lockExpiresAt, NullTimer for      *)
(* timer.  A request without a userId carries the empty string, which is   *)
(* falsy like undefined.                                                   *)
(***************************************************************************)
EXTENDS Integers, FiniteSets, Sequences, TLC

\* ---------------------------------------------------------------- bounds
\* Clock granularity: Date.now() is observed at the multiples of
\* LOCK_TTL_MS \div TicksPerTTL, and TimerSkewMs before a multiple at which a
\* scheduled timeout is due.
TicksPerTTL == 1
\* The clock is followed up to MaxTicks such multiples.
MaxTicks == 2

\* ------------------------------------------------------------- constants
LOCK_TTL_MS == 60 * 1000
SEAT_COUNT == 10

\* The delay of a timeout is measured on the runtime's monotonic clock, not
\* on Date.now(): when the callback runs, Date.now() can still read up to
\* this many milliseconds less than the time of the call plus the delay.
TimerSkewMs == 1

TickMs == LOCK_TTL_MS \div TicksPerTTL
MaxTime == MaxTicks * TickMs

NullOwner == "null"
NullTime == -1
NullTimer == [seat |-> 0, due |-> NullTime]

\* userId values that are strings
Users == {"alice", "bob"}
\* A userId that is a JSON object (or array): the body parser builds a new
\* object for every request, so the value stored by a lock is never
\* identical (===) to the value a later request carries.
ObjectUsers == {"{id:7}"}
Claimants == Users \cup ObjectUsers
\* userId values a request can carry: a claimant, or nothing
UserInputs == Claimants \cup {""}
SeatIds == 1..SEAT_COUNT
\* the seats that requests address; the other seats of the pool are in the
\* store and in every listing, and no request names them
SeatsUsed == {1, 2}
\* An id that names a property every plain object inherits ("constructor",
\* "__proto__", "toString", "valueOf", "hasOwnProperty"): seats[id] is then
\* a value that is not a seat and has no status.
ProtoId == -1
InheritedIds == {ProtoId}
\* ids a request can carry: seats, an inherited property name, and 0, which
\* names nothing
IdInputs == SeatsUsed \cup InheritedIds \cup {0}
\* The requests explored, as <<id, userId>>: every userId on seat 1, one
\* claimant on seat 2, and a claimant and a missing userId on the ids that
\* are no seat.
Requests ==
  ({1} \X UserInputs) \cup ({2} \X {"alice"}) \cup ((InheritedIds \cup {0}) \X {"alice", ""})

VARIABLES
  seats,      \* seats[id] = [status, lockOwner, lockExpiresAt, timer]
  timers,     \* scheduled, not yet fired, not cleared timeouts: [seat, due]
  now,        \* Date.now()
  last,       \* the most recent step and, for a request, its response
  lastLock    \* per seat: claimant and time of the latest successful lock,
              \* forgotten at the next confirm or unlock request on the seat

vars == <<seats, timers, now, last, lastLock>>

\* ------------------------------------------------------------ the store
NewSeat == [status |-> "available", lockOwner |-> NullOwner,
            lockExpiresAt |-> NullTime, timer |-> NullTimer]

NoLock == [owner |-> NullOwner, at |-> NullTime]

\* the part of the state the handlers read and write
Store == [seats |-> seats, timers |-> timers]

\* seats[seatId] of an id that names nothing: undefined
NoSeat == [status |-> "none", lockOwner |-> NullOwner,
           lockExpiresAt |-> NullTime, timer |-> NullTimer]

\* seats[seatId] of an inherited property name: a value without status,
\* lockOwner, lockExpiresAt and timer
Inherited == [status |-> "undefined", lockOwner |-> NullOwner,
              lockExpiresAt |-> NullTime, timer |-> NullTimer]

\* seats[seatId]
lookup(ss, seatId) ==
  IF seatId \in DOMAIN ss THEN ss[seatId]
  ELSE IF seatId \in InheritedIds THEN Inherited
  ELSE NoSeat

\* A Timeout object is known by the seat its callback closes over and the
\* time of the call plus the delay.  The handlers never hold two
\* timeouts of one seat at once, so this identifies every live timeout.
\* setTimeout(callback for seatId, delay) at clock t
setTimeout(seatId, delay, t) == [seat |-> seatId, due |-> t + delay]

\* !userId
Missing(userId) == userId = ""

clearTimeoutAll(tm, h) == {}

clearTimeoutNoop(tm, h) == tm

clearTimeout(tm, h) == tm \ {h}

releaseLockKeepsOwner(st, seatId) ==
  IF seatId \notin DOMAIN st.seats THEN st
  ELSE LET s == st.seats[seatId]
           tm1 == IF s.timer # NullTimer THEN clearTimeout(st.timers, s.timer)
                  ELSE st.timers
           s1 == IF s.timer # NullTimer THEN [s EXCEPT !.timer = NullTimer] ELSE s
           s2 == IF s1.status = "locked"
                 THEN [s1 EXCEPT !.status = "available"]
                 ELSE s1
       IN [st EXCEPT !.seats[seatId] = s2, !.timers = tm1]

releaseLockLeaksTimer(st, seatId) ==
  IF seatId \notin DOMAIN st.seats THEN st
  ELSE LET s == st.seats[seatId]
           s1 == IF s.timer # NullTimer THEN [s EXCEPT !.timer = NullTimer] ELSE s
           s2 == IF s1.status = "locked"
                 THEN [s1 EXCEPT !.status = "available",
                                 !.lockOwner = NullOwner,
                                 !.lockExpiresAt = NullTime]
                 ELSE s1
       IN [st EXCEPT !.seats[seatId] = s2]

releaseLock(st, seatId) ==
  IF seatId \notin DOMAIN st.seats THEN st
  ELSE LET s == st.seats[seatId]
           tm1 == IF s.timer # NullTimer THEN clearTimeout(st.timers, s.timer)
                  ELSE st.timers
           s1 == IF s.timer # NullTimer THEN [s EXCEPT !.timer = NullTimer] ELSE s
           s2 == IF s1.status = "locked"
                 THEN [s1 EXCEPT !.status = "available",
                                 !.lockOwner = NullOwner,
                                 !.lockExpiresAt = NullTime]
                 ELSE s1
       IN [st EXCEPT !.seats[seatId] = s2, !.timers = tm1]

\* a response: HTTP status, which message it carries, and lockExpiresAt
Resp(status, kind) == [status |-> status, kind |-> kind, lockExpiresAt |-> NullTime]

Reply(st, status, kind) == [st |-> st, res |-> Resp(status, kind)]

\* ---------------------------------------------------------- POST /lock/:id
lockSeatBookedNever(s) == FALSE

\* seat.status === 'booked'
lockSeatBooked(s) == s.status = "booked"

lockLapsedAlways(s, t) == TRUE

lockLapsedFlipped(s, t) == s.lockExpiresAt # NullTime /\ s.lockExpiresAt >= t

lockLapsedStrict(s, t) == s.lockExpiresAt # NullTime /\ s.lockExpiresAt < t

\* the lock is stale when lockExpiresAt is set and not after the clock
lockLapsed(s, t) == s.lockExpiresAt # NullTime /\ s.lockExpiresAt <= t

acquireTtlSeconds(st, seatId, userId, t) ==
  LET s == st.seats[seatId]
      tm1 == IF s.timer # NullTimer THEN clearTimeout(st.timers, s.timer)
             ELSE st.timers
      tmr == setTimeout(seatId, LOCK_TTL_MS, t)
      s1 == [status |-> "locked", lockOwner |-> userId,
             lockExpiresAt |-> t + (LOCK_TTL_MS \div 1000), timer |-> tmr]
  IN [st |-> [seats |-> [st.seats EXCEPT ![seatId] = s1],
              timers |-> tm1 \cup {tmr}],
      res |-> [status |-> 200, kind |-> "Locked", lockExpiresAt |-> s1.lockExpiresAt]]

\* the assignments and the timer of a successful lock
acquire(st, seatId, userId, t) ==
  LET s == st.seats[seatId]
      tm1 == IF s.timer # NullTimer THEN clearTimeout(st.timers, s.timer)
             ELSE st.timers
      tmr == setTimeout(seatId, LOCK_TTL_MS, t)
      s1 == [status |-> "locked", lockOwner |-> userId,
             lockExpiresAt |-> t + LOCK_TTL_MS, timer |-> tmr]
  IN [st |-> [seats |-> [st.seats EXCEPT ![seatId] = s1],
              timers |-> tm1 \cup {tmr}],
      res |-> [status |-> 200, kind |-> "Locked", lockExpiresAt |-> s1.lockExpiresAt]]

lockHandlerReleasesOnConflict(st, seatId, userId, t) ==
  IF Missing(userId) THEN Reply(st, 400, "InvalidRequest")
  ELSE LET seat == lookup(st.seats, seatId) IN
  IF seat = NoSeat THEN Reply(st, 404, "NotFound")
  ELSE IF lockSeatBooked(seat) THEN Reply(st, 400, "AlreadyBooked")
  ELSE IF seat.status = "locked" /\ ~lockLapsed(seat, t)
       THEN Reply(releaseLock(st, seatId), 409, "Conflict")
  ELSE LET st1 == IF seat.status = "locked" THEN releaseLock(st, seatId) ELSE st
       IN IF lookup(st1.seats, seatId).status # "available"
          THEN Reply(st1, 400, "CannotLock")
          ELSE acquire(st1, seatId, userId, t)

lockHandler(st, seatId, userId, t) ==
  IF Missing(userId) THEN Reply(st, 400, "InvalidRequest")
  ELSE LET seat == lookup(st.seats, seatId) IN
  IF seat = NoSeat THEN Reply(st, 404, "NotFound")
  ELSE IF lockSeatBooked(seat) THEN Reply(st, 400, "AlreadyBooked")
  ELSE IF seat.status = "locked" /\ ~lockLapsed(seat, t)
       THEN Reply(st, 409, "Conflict")
  ELSE LET st1 == IF seat.status = "locked" THEN releaseLock(st, seatId) ELSE st
       IN IF lookup(st1.seats, seatId).status # "available"
          THEN Reply(st1, 400, "CannotLock")
          ELSE acquire(st1, seatId, userId, t)

\* ------------------------------------------------------- POST /confirm/:id
confirmExpiredStrict(s, t) == s.lockExpiresAt = NullTime \/ s.lockExpiresAt < t

confirmExpiredUnset(s, t) == s.lockExpiresAt = NullTime

\* !seat.lockExpiresAt || seat.lockExpiresAt <= Date.now()
confirmExpired(s, t) == s.lockExpiresAt = NullTime \/ s.lockExpiresAt <= t

bookKeepsTimer(st, seatId) ==
  [st EXCEPT !.seats[seatId].status = "booked",
             !.seats[seatId].lockOwner = NullOwner,
             !.seats[seatId].lockExpiresAt = NullTime]

book(st, seatId) ==
  LET s == st.seats[seatId]
      tm1 == IF s.timer # NullTimer THEN clearTimeout(st.timers, s.timer)
             ELSE st.timers
  IN [st EXCEPT !.timers = tm1,
                !.seats[seatId] = [status |-> "booked", lockOwner |-> NullOwner,
                                   lockExpiresAt |-> NullTime, timer |-> NullTimer]]

confirmNotOwnerNever(s, userId) == FALSE

\* seat.lockOwner !== userId: strings differ by value, an object differs
\* from every value stored earlier
confirmNotOwner(s, userId) == s.lockOwner # userId \/ userId \in ObjectUsers

confirmHandler(st, seatId, userId, t) ==
  IF Missing(userId) THEN Reply(st, 400, "InvalidRequest")
  ELSE LET seat == lookup(st.seats, seatId) IN
  IF seat = NoSeat THEN Reply(st, 404, "NotFound")
  ELSE IF seat.status = "booked" THEN Reply(st, 400, "AlreadyBooked")
  ELSE IF seat.status # "locked" THEN Reply(st, 400, "NotLocked")
  ELSE IF confirmNotOwner(seat, userId) THEN Reply(st, 403, "Forbidden")
  ELSE IF confirmExpired(seat, t)
       THEN Reply(releaseLock(st, seatId), 400, "Expired")
  ELSE Reply(book(st, seatId), 200, "Booked")

\* -------------------------------------------------------- POST /unlock/:id
unlockNotOwnerNever(s, userId) == FALSE

\* seat.lockOwner !== userId: strings differ by value, an object differs
\* from every value stored earlier
unlockNotOwner(s, userId) == s.lockOwner # userId \/ userId \in ObjectUsers

unlockHandler(st, seatId, userId) ==
  IF Missing(userId) THEN Reply(st, 400, "InvalidRequest")
  ELSE LET seat == lookup(st.seats, seatId) IN
  IF seat = NoSeat THEN Reply(st, 404, "NotFound")
  ELSE IF seat.status # "locked" THEN Reply(st, 400, "NotLocked")
  ELSE IF unlockNotOwner(seat, userId) THEN Reply(st, 403, "Forbidden")
  ELSE Reply(releaseLock(st, seatId), 200, "Unlocked")

\* --------------------------------------------------------------- GET /seats
seatsViewRaw(ss) ==
  [id \in DOMAIN ss |->
     [status |-> ss[id].status,
      lockOwner |-> ss[id].lockOwner,
      lockExpiresAt |-> ss[id].lockExpiresAt]]

seatsView(ss) ==
  [id \in DOMAIN ss |->
     [status |-> ss[id].status,
      lockOwner |-> IF ss[id].status = "locked" THEN ss[id].lockOwner ELSE NullOwner,
      lockExpiresAt |-> IF ss[id].status = "locked" THEN ss[id].lockExpiresAt
                        ELSE NullTime]]

\* ------------------------------------------------------------ timer callback
expiryCallbackNoop(st, seatId) == st

expiryCallback(st, seatId) ==
  IF seatId \in DOMAIN st.seats /\ st.seats[seatId].status = "locked"
  THEN releaseLock(st, seatId)
  ELSE st

\* ------------------------------------------------------------------ actions
\* what a step leaves in `last`: the step, what seats[id] was when it began,
\* and the response
Pre(id) == lookup(seats, id)

Event(op, id, userId, res, out) ==
  [op |-> op, id |-> id, userId |-> userId, pre |-> Pre(id), status |-> res.status,
   kind |-> res.kind, lockExpiresAt |-> res.lockExpiresAt, out |-> out]

NoRes == Resp(0, "none")
NoOut == <<>>

Init ==
  /\ seats = [i \in SeatIds |-> NewSeat]
  /\ timers = {}
  /\ now = 0
  /\ last = Event("init", 0, "", NoRes, NoOut)
  /\ lastLock = [i \in SeatIds |-> NoLock]

SetStore(st) ==
  /\ seats' = st.seats
  /\ timers' = st.timers

Lock(id, userId) ==
  LET r == lockHandler(Store, id, userId, now) IN
  /\ SetStore(r.st)
  /\ last' = Event("lock", id, userId, r.res, NoOut)
  /\ lastLock' = IF r.res.status = 200
                 THEN [lastLock EXCEPT ![id] = [owner |-> userId, at |-> now]]
                 ELSE lastLock
  /\ UNCHANGED now

Confirm(id, userId) ==
  LET r == confirmHandler(Store, id, userId, now) IN
  /\ SetStore(r.st)
  /\ last' = Event("confirm", id, userId, r.res, NoOut)
  /\ lastLock' = IF id \in SeatIds THEN [lastLock EXCEPT ![id] = NoLock] ELSE lastLock
  /\ UNCHANGED now

Unlock(id, userId) ==
  LET r == unlockHandler(Store, id, userId) IN
  /\ SetStore(r.st)
  /\ last' = Event("unlock", id, userId, r.res, NoOut)
  /\ lastLock' = IF id \in SeatIds THEN [lastLock EXCEPT ![id] = NoLock] ELSE lastLock
  /\ UNCHANGED now

GetSeats ==
  /\ last' = Event("seats", 0, "", Resp(200, "Seats"), seatsView(seats))
  /\ UNCHANGED <<seats, timers, now, lastLock>>

\* the runtime runs a scheduled timeout once its delay has passed on the
\* timer clock, which Date.now() may trail by up to TimerSkewMs
TimerFire(tmr) ==
  /\ tmr \in timers
  /\ tmr.due <= now + TimerSkewMs
  /\ SetStore(expiryCallback([Store EXCEPT !.timers = timers \ {tmr}], tmr.seat))
  /\ last' = Event("expire", tmr.seat, "", NoRes, NoOut)
  /\ UNCHANGED <<now, lastLock>>

\* time passes, up to MaxTime: to the next multiple of TickMs, or first to
\* TimerSkewMs before it when a scheduled timeout is due at that multiple
Tick ==
  LET m == ((now \div TickMs) + 1) * TickMs
      next == IF now < m - TimerSkewMs /\ \E tmr \in timers : tmr.due = m
              THEN m - TimerSkewMs ELSE m
  IN /\ next <= MaxTime
     /\ now' = next
  /\ last' = Event("tick", 0, "", NoRes, NoOut)
  /\ UNCHANGED <<seats, timers, lastLock>>

Next ==
  \/ \E rq \in Requests : Lock(rq[1], rq[2])
  \/ \E rq \in Requests : Confirm(rq[1], rq[2])
  \/ \E rq \in Requests : Unlock(rq[1], rq[2])
  \/ GetSeats
  \/ \E tmr \in timers : TimerFire(tmr)
  \/ Tick

Spec == Init /\ [][Next]_vars

\* The clock keeps advancing, and the event loop runs a timeout that is due
\* and stays scheduled.
LiveSpec ==
  /\ Init /\ [][Next]_vars
  /\ WF_vars(Tick)
  /\ \A s \in SeatIds : WF_vars(\E tmr \in timers : tmr.seat = s /\ TimerFire(tmr))

\* ------------------------------------------------------------------- claims
\* the step just taken is the request `op` on seat id by userId
Req(op, id, userId) == last'.op = op /\ last'.id = id /\ last'.userId = userId

TimersOf(tm, id) == {x \in tm : x.seat = id}

\* C1: in every reachable state every seat has one of the three statuses,
\* and lockOwner and lockExpiresAt are both set when it is locked and both
\* unset otherwise.
C1_StatusOwnerExpiry ==
  /\ DOMAIN seats = SeatIds
  /\ \A s \in SeatIds :
       /\ seats[s].status \in {"available", "locked", "booked"}
       /\ seats[s].status = "locked" =>
            seats[s].lockOwner \in Claimants /\ seats[s].lockExpiresAt # NullTime
       /\ seats[s].status # "locked" =>
            seats[s].lockOwner = NullOwner /\ seats[s].lockExpiresAt = NullTime

\* a lock has just been released by its owner while another seat is locked
C1_Witness ==
  /\ last.op = "unlock" /\ last.kind = "Unlocked"
  /\ seats[last.id].status = "available"
  /\ \E t \in SeatIds : seats[t].status = "locked"

\* C2: a lock request on a seat that is locked and not yet expired fails with
\* Conflict for every claimant, the owner included, and changes neither the
\* seat nor the scheduled timeouts.
C2_LockOnValidLockConflicts ==
  [][\A s \in SeatIds, u \in Claimants :
       (Req("lock", s, u) /\ seats[s].status = "locked"
          /\ seats[s].lockExpiresAt > now)
       => /\ last'.kind = "Conflict" /\ last'.status = 409
          /\ seats' = seats
          /\ timers' = timers]_vars

\* the owner of a valid lock asked for the lock again and was refused
C2_Witness ==
  /\ last.op = "lock" /\ last.kind = "Conflict"
  /\ last.pre.lockOwner = last.userId
  /\ last.pre.lockExpiresAt > now
  /\ seats[last.id] = last.pre

\* C3: a confirm request succeeds only on a seat that is locked by the caller
\* (a userId that is a string equal to the stored owner) with
\* now < lockExpiresAt; it cancels the seat's timeout and leaves the seat
\* booked with owner, expiry and timer cleared.
C3_ConfirmOnlyByOwnerInTime ==
  [][\A id \in IdInputs, u \in UserInputs :
       (Req("confirm", id, u) /\ last'.status = 200)
       => /\ id \in SeatIds /\ u \in Users
          /\ seats[id].status = "locked"
          /\ seats[id].lockOwner = u
          /\ now < seats[id].lockExpiresAt
          /\ seats[id].timer \in timers
          /\ TimersOf(timers', id) = {}
          /\ seats'[id] = [status |-> "booked", lockOwner |-> NullOwner,
                           lockExpiresAt |-> NullTime, timer |-> NullTimer]]_vars

\* the owner confirmed a lock before it expired
C3_Witness ==
  /\ last.op = "confirm" /\ last.kind = "Booked" /\ last.status = 200
  /\ last.pre.lockOwner = last.userId
  /\ seats[last.id].status = "booked"

\* C4: once a seat is booked no step changes it; a lock or confirm request on
\* it by a claimant fails with AlreadyBooked, an unlock request fails with
\* NotLocked, and the seats listing shows it without owner and expiry.
C4_BookedIsTerminal ==
  [][\A s \in SeatIds :
       seats[s].status = "booked"
       => /\ seats'[s] = seats[s]
          /\ seats'[s].lockOwner = NullOwner
          /\ seats'[s].lockExpiresAt = NullTime
          /\ TimersOf(timers', s) = {}
          /\ \A u \in Claimants :
               /\ Req("lock", s, u) => last'.kind = "AlreadyBooked" /\ last'.status = 400
               /\ Req("confirm", s, u) => last'.kind = "AlreadyBooked" /\ last'.status = 400
               /\ Req("unlock", s, u) => last'.kind = "NotLocked" /\ last'.status = 400
          /\ last'.op = "seats" =>
               last'.out[s] = [status |-> "booked", lockOwner |-> NullOwner,
                               lockExpiresAt |-> NullTime]]_vars

\* a lock request on a booked seat was refused
C4_Witness ==
  /\ last.op = "lock" /\ last.kind = "AlreadyBooked"
  /\ last.pre.status = "booked"
  /\ seats[last.id].status = "booked"

\* C5: a lock request by a claimant on an available seat succeeds and returns
\* lockExpiresAt = now + LOCK_TTL_MS, leaving the seat locked by that claimant
\* with that expiry; a stored lockExpiresAt only ever appears in a successful
\* lock, as the time of that request plus LOCK_TTL_MS, and is kept unchanged
\* by every other step.
C5_LockAvailableSetsExpiry ==
  [][/\ \A s \in SeatIds, u \in Claimants :
          (Req("lock", s, u) /\ seats[s].status = "available")
          => /\ last'.status = 200
             /\ last'.lockExpiresAt = now + LOCK_TTL_MS
             /\ seats'[s].status = "locked"
             /\ seats'[s].lockOwner = u
             /\ seats'[s].lockExpiresAt = last'.lockExpiresAt
     /\ \A s \in SeatIds :
          seats'[s].lockExpiresAt # NullTime
          => \/ seats'[s].lockExpiresAt = seats[s].lockExpiresAt
             \/ /\ last'.op = "lock" /\ last'.id = s /\ last'.status = 200
                /\ seats'[s].lockExpiresAt = now + LOCK_TTL_MS]_vars

\* an available seat has just been locked
C5_Witness ==
  /\ last.op = "lock" /\ last.status = 200
  /\ last.pre.status = "available"
  /\ seats[last.id].status = "locked"
  /\ seats[last.id].lockOwner = last.userId
  /\ seats[last.id].lockExpiresAt = now + LOCK_TTL_MS

\* C6: a lock request by a claimant on a seat that is locked with
\* lockExpiresAt <= now succeeds: the stale timeout is cancelled, and the
\* seat ends locked by the new claimant with lockExpiresAt = now + LOCK_TTL_MS
\* and one newly scheduled timeout.
C6_LapsedLockReclaimed ==
  [][\A s \in SeatIds, u \in Claimants :
       (Req("lock", s, u) /\ seats[s].status = "locked"
          /\ seats[s].lockExpiresAt <= now)
       => /\ last'.status = 200
          /\ last'.lockExpiresAt = now + LOCK_TTL_MS
          /\ seats[s].timer \notin timers'
          /\ seats'[s].status = "locked"
          /\ seats'[s].lockOwner = u
          /\ seats'[s].lockExpiresAt = now + LOCK_TTL_MS
          /\ seats'[s].timer # seats[s].timer
          /\ seats'[s].timer.due = now + LOCK_TTL_MS
          /\ TimersOf(timers', s) = {seats'[s].timer}]_vars

\* another claimant has just taken over a lapsed lock whose timeout had not run
C6_Witness ==
  /\ last.op = "lock" /\ last.status = 200
  /\ last.pre.status = "locked"
  /\ last.pre.lockExpiresAt <= now
  /\ last.pre.lockOwner # last.userId
  /\ seats[last.id].lockOwner = last.userId

\* the claimant u holds the latest successful lock on seat s, taken a full
\* LOCK_TTL_MS or more ago, and no confirm or unlock request came since
LockTtlElapsed(s, u) ==
  /\ lastLock[s].owner = u
  /\ lastLock[s].at # NullTime
  /\ lastLock[s].at + LOCK_TTL_MS <= now

\* C7 as stated: a confirm by the claimant after the TTL of its lock has
\* elapsed, with no confirm or unlock in between, fails with Expired and
\* leaves the seat available, whether or not the timeout has already run.
C7_Original ==
  [][\A s \in SeatIds, u \in Claimants :
       (Req("confirm", s, u) /\ LockTtlElapsed(s, u))
       => last'.kind = "Expired" /\ seats'[s] = NewSeat]_vars

\* C7: a confirm by the claimant after the TTL of its lock has elapsed, with
\* no confirm, unlock or later successful lock on the seat in between, fails.
\* When the timeout has run already the seat is available and stays so, and
\* the answer is NotLocked (400).  When it has not, the seat is still locked:
\* for a userId that is a string the answer is Expired (400) and the seat is
\* left available with owner, expiry and timer cleared; for a userId that is
\* an object the owner test fails first, the answer is Forbidden (403) and
\* the seat stays locked with its timeout scheduled.
C7_ConfirmAfterTtlFails ==
  [][\A s \in SeatIds, u \in Claimants :
       (Req("confirm", s, u) /\ LockTtlElapsed(s, u))
       => /\ last'.status # 200
          /\ seats[s].status \in {"locked", "available"}
          /\ seats[s].status = "available" =>
               /\ last'.kind = "NotLocked" /\ last'.status = 400
               /\ seats'[s] = NewSeat
               /\ TimersOf(timers', s) = {}
          /\ (seats[s].status = "locked" /\ u \in Users) =>
               /\ seats[s].lockOwner = u
               /\ last'.kind = "Expired" /\ last'.status = 400
               /\ seats'[s] = NewSeat
               /\ TimersOf(timers', s) = {}
          /\ (seats[s].status = "locked" /\ u \in ObjectUsers) =>
               /\ seats[s].lockOwner = u
               /\ last'.kind = "Forbidden" /\ last'.status = 403
               /\ seats'[s] = seats[s]
               /\ TimersOf(timers', s) = {seats[s].timer}]_vars

\* the owner confirmed a lapsed lock before its timeout ran and got Expired
C7_Witness ==
  /\ last.op = "confirm" /\ last.kind = "Expired"
  /\ last.pre.status = "locked"
  /\ last.pre.lockOwner = last.userId
  /\ last.pre.lockExpiresAt <= now
  /\ seats[last.id] = NewSeat

\* C8: an unlock request on a locked seat by a claimant who is not its owner
\* fails with Forbidden and changes neither the seat nor the scheduled
\* timeouts.
C8_UnlockByOtherForbidden ==
  [][\A s \in SeatIds, u \in Claimants :
       (Req("unlock", s, u) /\ seats[s].status = "locked"
          /\ seats[s].lockOwner # u)
       => /\ last'.kind = "Forbidden" /\ last'.status = 403
          /\ seats' = seats
          /\ timers' = timers
          /\ seats'[s].timer \in timers']_vars

\* a claimant other than the owner asked to unlock and was refused
C8_Witness ==
  /\ last.op = "unlock" /\ last.kind = "Forbidden"
  /\ last.pre.status = "locked"
  /\ last.pre.lockOwner # last.userId
  /\ seats[last.id] = last.pre
  /\ seats[last.id].timer \in timers

\* the values of lockExpiresAt that lie within the time the model follows
LockExpiries ==
  {e \in {k * TickMs - d + LOCK_TTL_MS : k \in 0..MaxTicks, d \in {0, TimerSkewMs}} :
     e >= LOCK_TTL_MS /\ e <= MaxTime}

\* seat s is held by the lock that expires at e
HeldUntil(s, e) == seats[s].status = "locked" /\ seats[s].lockExpiresAt = e

\* C9: every lock whose expiry lies within the time followed eventually
\* ends, with no request needed: the clock and the timeout alone are fair.
\* A lock ends by a step on its seat only; when that step is its timeout the
\* seat is left available with owner, expiry and timer cleared, and a
\* request ends it only as a confirm that books the seat, as an unlock or
\* expired confirm that leaves it available, or as a lock that reclaims it.
C9_LockEventuallyReleased ==
  /\ \A s \in SeatsUsed, e \in LockExpiries : HeldUntil(s, e) ~> ~HeldUntil(s, e)
  /\ [][\A s \in SeatIds :
          (seats[s].status = "locked" /\ seats'[s] # seats[s])
          => /\ last'.id = s
             /\ \/ last'.op = "expire" /\ seats'[s] = NewSeat
                \/ last'.op = "confirm" /\ last'.status = 200
                     /\ seats'[s].status = "booked"
                \/ last'.op = "confirm" /\ last'.kind = "Expired"
                     /\ seats'[s] = NewSeat
                \/ last'.op = "unlock" /\ last'.status = 200 /\ seats'[s] = NewSeat
                \/ last'.op = "lock" /\ last'.status = 200
                     /\ seats[s].lockExpiresAt <= now]_vars

\* the timeout of a lock taken after the start has run and released the seat
C9_Witness ==
  /\ last.op = "expire"
  /\ last.pre.status = "locked"
  /\ last.pre.lockExpiresAt > LOCK_TTL_MS
  /\ last.pre.lockExpiresAt \in LockExpiries
  /\ seats[last.id] = NewSeat

\* C10: an unlock request by the claimant whose userId the lock stores
\* succeeds, lapsed or not; the seat is then available with owner and expiry
\* cleared, its timeout is cancelled, and a lock request by any claimant
\* would succeed.
C10_OwnerUnlockReleases ==
  [][\A s \in SeatIds, u \in Claimants :
       (Req("unlock", s, u) /\ seats[s].status = "locked"
          /\ seats[s].lockOwner = u)
       => /\ last'.status = 200
          /\ seats'[s] = NewSeat
          /\ seats[s].timer \notin timers'
          /\ TimersOf(timers', s) = {}
          /\ \A v \in Claimants :
               lockHandler([seats |-> seats', timers |-> timers'], s, v, now').res.status
                 = 200]_vars

\* records of a seat that is not locked, with every combination of stored
\* owner and expiry, cleared or left over
StaleRecords ==
  [status : {"available", "booked"},
   lockOwner : Claimants \cup {NullOwner},
   lockExpiresAt : {NullTime, now, now + LOCK_TTL_MS},
   timer : {NullTimer}]

\* C11: the seats listing changes no seat, no timeout and not the clock; it
\* shows a locked seat with exactly its stored owner and expiry, and a seat
\* that is not locked without owner and expiry, whatever the stored fields of
\* such a seat hold.
C11_ListingReadOnlyAndHiding ==
  [][last'.op = "seats"
     => /\ seats' = seats /\ timers' = timers /\ now' = now
        /\ DOMAIN last'.out = SeatIds
        /\ \A s \in SeatIds :
             /\ last'.out[s].status = seats[s].status
             /\ seats[s].status = "locked" =>
                  /\ last'.out[s].lockOwner = seats[s].lockOwner
                  /\ last'.out[s].lockExpiresAt = seats[s].lockExpiresAt
             /\ seats[s].status # "locked" =>
                  /\ last'.out[s].lockOwner = NullOwner
                  /\ last'.out[s].lockExpiresAt = NullTime
             /\ \A rec \in StaleRecords :
                  seatsView([seats EXCEPT ![s] = rec])[s]
                    = [status |-> rec.status, lockOwner |-> NullOwner,
                       lockExpiresAt |-> NullTime]]_vars

\* the listing was taken with one seat locked and another booked
C11_Witness ==
  /\ last.op = "seats"
  /\ \E s, t \in SeatIds :
       /\ seats[s].status = "locked" /\ seats[t].status = "booked"
       /\ last.out[s].lockOwner = seats[s].lockOwner
       /\ last.out[s].lockExpiresAt = seats[s].lockExpiresAt
       /\ last.out[t].lockOwner = NullOwner

\* C12 as stated: once a lock request has cancelled the due timeout of an
\* earlier lock and locked the seat again, a run of that earlier callback
\* changes nothing.  The callback closes over the seat id only, so its run is
\* expiryCallback on that seat.
C12_Original ==
  (last.op = "lock" /\ last.status = 200 /\ last.pre.status = "locked")
  => expiryCallback(Store, last.id) = Store

\* C12: a cancelled timeout never runs: the callback that runs is always the
\* one of the timeout the seat currently holds, scheduled by the lock it
\* releases with that lock's lockExpiresAt as its time, and it runs no more
\* than TimerSkewMs before that time on Date.now(), so no lock taken by a
\* later request is released by an earlier callback.  (The callback itself tests
\* the status only; the cancellation is what protects the later lock.)
C12_OnlyCurrentTimeoutRuns ==
  [][last'.op = "expire"
     => /\ last'.id \in SeatIds
        /\ seats[last'.id].status = "locked"
        /\ seats[last'.id].timer \in timers
        /\ timers \ timers' = {seats[last'.id].timer}
        /\ seats[last'.id].timer.due = seats[last'.id].lockExpiresAt
        /\ seats[last'.id].lockExpiresAt <= now + TimerSkewMs
        /\ seats'[last'.id] = NewSeat]_vars

\* a lapsed lock was taken over: its due timeout is cancelled and gone, the
\* seat is locked again, and no timeout of the seat is due
C12_Witness ==
  /\ last.op = "lock" /\ last.status = 200
  /\ last.pre.status = "locked"
  /\ last.pre.timer.due <= now
  /\ last.pre.timer \notin timers
  /\ seats[last.id].status = "locked"
  /\ TimersOf(timers, last.id) = {seats[last.id].timer}
  /\ seats[last.id].timer.due > now

\* C13: requests run one after the other, each handler to completion, so
\* lock requests arriving together on an available seat are served in some
\* order at the same clock value: the first one served succeeds, every other
\* one fails with Conflict and changes nothing, whichever claimants they come
\* from and in whichever order; no request is held back for another.
C13_ConcurrentLocksOneWinner ==
  /\ [](\A s \in SeatIds :
          seats[s].status = "available"
          => \A u, v, w \in Claimants :
               LET r1 == lockHandler(Store, s, u, now)
                   r2 == lockHandler(r1.st, s, v, now)
                   r3 == lockHandler(r2.st, s, w, now)
               IN /\ r1.res.status = 200
                  /\ r1.st.seats[s].lockOwner = u
                  /\ r2.res.kind = "Conflict" /\ r2.st = r1.st
                  /\ r3.res.kind = "Conflict" /\ r3.st = r1.st)
  /\ [][\A s \in SeatIds, u \in Claimants :
          (Req("lock", s, u) /\ seats[s].status = "locked"
             /\ seats[s].lockExpiresAt = now + LOCK_TTL_MS)
          => /\ last'.kind = "Conflict"
             /\ seats' = seats /\ timers' = timers]_vars

\* two claimants asked for an available seat at the same clock value: the
\* one served second was refused and the first one holds the lock
C13_Witness ==
  /\ last.op = "lock" /\ last.kind = "Conflict"
  /\ lastLock[last.id].at = now
  /\ lastLock[last.id].owner # last.userId
  /\ seats[last.id].status = "locked"
  /\ seats[last.id].lockOwner = lastLock[last.id].owner

\* C14: a seat never has more than one scheduled timeout; a successful lock
\* leaves exactly one scheduled timeout for its seat, a new one due after
\* LOCK_TTL_MS, and a failed lock schedules none.
C14_OneTimeoutPerSeat ==
  /\ [](\A s \in SeatIds : Cardinality(TimersOf(timers, s)) <= 1)
  /\ [][\A id \in IdInputs, u \in UserInputs :
          Req("lock", id, u)
          => /\ last'.status = 200 =>
                  /\ id \in SeatIds
                  /\ TimersOf(timers', id) = {seats'[id].timer}
                  /\ seats'[id].timer.due = now + LOCK_TTL_MS
                  /\ seats'[id].timer \in timers'
                  /\ \A t \in SeatIds \ {id} : TimersOf(timers', t) = TimersOf(timers, t)
             /\ last'.status # 200 => timers' = timers]_vars

\* an available seat was locked after the clock had advanced, while another
\* seat's timeout is scheduled: each of the two seats has one timeout
C14_Witness ==
  /\ last.op = "lock" /\ last.status = 200
  /\ last.pre.status = "available"
  /\ now > 0
  /\ \E s \in SeatIds : s # last.id /\ Cardinality(TimersOf(timers, s)) = 1
  /\ Cardinality(TimersOf(timers, last.id)) = 1

\* C15: in every reachable state a seat's timer field is set exactly when
\* the seat is locked, and the timeout it names is then scheduled.
C15_TimerSetIffLocked ==
  \A s \in SeatIds :
    /\ seats[s].timer # NullTimer <=> seats[s].status = "locked"
    /\ seats[s].timer # NullTimer => seats[s].timer \in timers

\* a confirm has just taken a seat out of Locked and its timer field is unset
C15_Witness ==
  /\ last.op = "confirm" /\ last.status = 200
  /\ last.pre.status = "locked"
  /\ last.pre.timer # NullTimer
  /\ seats[last.id].status = "booked"
  /\ seats[last.id].timer = NullTimer
  /\ \E t \in SeatIds : seats[t].status = "locked" /\ seats[t].timer \in timers

\* the answers of a failed request: the seven kinds the handlers share, and
\* the "cannot be locked" answer of the lock handler
ErrorKinds ==
  {"InvalidRequest", "NotFound", "AlreadyBooked", "Conflict", "NotLocked",
   "Forbidden", "Expired", "CannotLock"}

\* C16: a lock, confirm or unlock request that fails changes no seat and no
\* timeout unless its answer is Expired, whichever of the other answers it
\* gives; Expired comes only from confirm, and resets that one seat to
\* available, cancels its timeout and changes nothing else.
C16_ErrorsLeaveStateExceptExpired ==
  [][(last'.op \in {"lock", "confirm", "unlock"} /\ last'.status # 200)
     => /\ last'.kind \in ErrorKinds
        /\ last'.kind # "Expired" => seats' = seats /\ timers' = timers
        /\ last'.kind = "Expired" =>
             /\ last'.op = "confirm"
             /\ last'.id \in SeatIds
             /\ seats[last'.id].status = "locked"
             /\ seats' = [seats EXCEPT ![last'.id] = NewSeat]
             /\ timers' = timers \ {seats[last'.id].timer}]_vars

\* a confirm has failed with Expired and reset its seat, while the other
\* seat is still locked with its timeout scheduled
C16_Witness ==
  /\ last.op = "confirm" /\ last.kind = "Expired" /\ last.status = 400
  /\ seats[last.id] = NewSeat
  /\ \E t \in SeatIds :
       t # last.id /\ seats[t].status = "locked" /\ seats[t].timer \in timers

\* C17: a lock, confirm or unlock request for an id that is not in the store
\* fails with NotFound whatever userId it carries, a missing one included.
C17_NotFoundBeforeInvalidRequest ==
  [][\A id \in IdInputs \ SeatIds, u \in UserInputs :
       (Req("lock", id, u) \/ Req("confirm", id, u) \/ Req("unlock", id, u))
       => last'.kind = "NotFound" /\ last'.status = 404]_vars

\* C18: a confirm request on a lapsed lock (lockExpiresAt <= now, timeout not
\* yet run) by a claimant who is not the owner fails with Forbidden, not
\* Expired, and changes neither the seat nor the timeouts; a lapsed lock is
\* only ever changed by its timeout running, by a confirm or unlock of its
\* owner, or by a lock request.
C18_ForbiddenBeforeExpired ==
  [][\A s \in SeatIds :
       (seats[s].status = "locked" /\ seats[s].lockExpiresAt <= now)
       => /\ \A u \in Claimants :
               (Req("confirm", s, u) /\ seats[s].lockOwner # u)
               => /\ last'.kind = "Forbidden" /\ last'.status = 403
                  /\ seats' = seats /\ timers' = timers
          /\ seats'[s] # seats[s]
             => /\ last'.id = s
                /\ \/ last'.op \in {"expire", "lock"}
                   \/ /\ last'.op \in {"confirm", "unlock"}
                      /\ last'.userId = seats[s].lockOwner]_vars

\* a claimant other than the owner confirmed a lapsed lock and was refused;
\* the seat is still locked by the stale owner
C18_Witness ==
  /\ last.op = "confirm" /\ last.kind = "Forbidden"
  /\ last.pre.status = "locked"
  /\ last.pre.lockExpiresAt <= now
  /\ last.pre.lockOwner # last.userId
  /\ seats[last.id] = last.pre
  /\ seats[last.id].timer \in timers

\* C19: while now < lockExpiresAt a locked seat keeps its status, owner,
\* expiry and scheduled timeout through every step, except a successful
\* unlock or confirm by its owner: no request of another claimant, no lock
\* request and no timer callback changes it before its expiry.
C19_LockHeldUntilExpiry ==
  [][\A s \in SeatIds :
       (seats[s].status = "locked" /\ now < seats[s].lockExpiresAt)
       => \/ /\ seats'[s] = seats[s]
             /\ seats[s].timer \in timers'
          \/ /\ last'.op \in {"unlock", "confirm"}
             /\ last'.id = s
             /\ last'.userId = seats[s].lockOwner
             /\ last'.status = 200]_vars

\* C20: the store always holds the seats 1..SEAT_COUNT, all available at the
\* start; a lock, confirm or unlock request on one seat, and the timer
\* callback of one seat, change no field of any other seat and none of the
\* other seats' timeouts.
C20_SeatsIndependent ==
  /\ [](/\ DOMAIN seats = SeatIds
        /\ Cardinality(DOMAIN seats) = SEAT_COUNT
        /\ last.op = "init" => (\A s \in SeatIds : seats[s] = NewSeat) /\ timers = {})
  /\ [][\A r \in IdInputs :
          (last'.op \in {"lock", "confirm", "unlock", "expire"} /\ last'.id = r)
          => \A t \in SeatIds \ {r} :
               /\ seats'[t] = seats[t]
               /\ TimersOf(timers', t) = TimersOf(timers, t)]_vars

\* the timeouts of both seats were due; one has run and released its seat,
\* the other seat is still locked with its timeout scheduled
C20_Witness ==
  /\ last.op = "expire"
  /\ seats[last.id] = NewSeat
  /\ \E t \in SeatIds :
       /\ t # last.id
       /\ seats[t].status = "locked"
       /\ seats[t].timer \in timers
       /\ seats[t].timer.due <= now

====
